---- MODULE Spec2Model ----
(***************************************************************************)
(* A model of mmengine/fileio/backends/aws_backend.py (class AWSBackend).  *)
(*                                                                         *)
(* Python strings are sequences of one-character strings, so that slicing, *)
(* str.replace, str.split, str.endswith and the two regular expressions of *)
(* the backend are computed the way the interpreter computes them.         *)
(***************************************************************************)
EXTENDS Integers, Sequences, FiniteSets, TLC

(***************************************************************************)
(* Bounds of the model.                                                    *)
(***************************************************************************)

\* Largest number of objects the bucket holds.
MaxKeys == 4

\* Stand-ins for PaginationConfig {'MaxItems': 1000, 'PageSize': 1000}
\* (line 388), scaled down so that a bucket of MaxKeys objects spans pages.
MaxItems == 2

PageSize == 2

\* Longest text that follows the scheme prefix in a raw path of RawPaths.
MaxBody == 3

\* Largest number of objects the bucket holds when two calls list it.
MaxKeysTwoCalls == 2

(***************************************************************************)
(* Python string primitives.                                               *)
(***************************************************************************)

SL == "/"

BS == "\\"

NL == "\n"

\* s[n:]
Drop(s, n) ==
    IF n >= Len(s) THEN <<>> ELSE SubSeq(s, n + 1, Len(s))

\* s[:n]
Take(s, n) ==
    IF n >= Len(s) THEN s ELSE SubSeq(s, 1, n)

\* s.startswith(p)
StartsWith(s, p) ==
    Len(p) <= Len(s) /\ SubSeq(s, 1, Len(p)) = p

\* s.endswith(p), p a string
EndsWith(s, p) ==
    Len(p) <= Len(s) /\ SubSeq(s, Len(s) - Len(p) + 1, Len(s)) = p

RECURSIVE Replace(_, _, _)
\* s.replace(old, new): the non-overlapping occurrences of old, leftmost first;
\* an empty old matches before every character and at the end.
Replace(s, old, new) ==
    IF old = <<>>
    THEN IF s = <<>> THEN new
         ELSE new \o <<Head(s)>> \o
              (IF Len(s) = 1 THEN new ELSE Replace(Tail(s), old, new))
    ELSE IF s = <<>> THEN <<>>
         ELSE IF StartsWith(s, old)
              THEN new \o Replace(Drop(s, Len(old)), old, new)
              ELSE <<Head(s)>> \o Replace(Tail(s), old, new)

RECURSIVE IndexOf(_, _, _)
\* s.find(c, i - 1) + 1 for a character c: 0 when c is absent from s[i..].
IndexOf(s, c, i) ==
    IF i > Len(s) THEN 0
    ELSE IF s[i] = c THEN i ELSE IndexOf(s, c, i + 1)

RECURSIVE Split(_, _)
\* s.split(c) for a character c: the pieces between the c's, empty ones kept.
Split(s, c) ==
    LET i == IndexOf(s, c, 1)
    IN IF i = 0 THEN <<s>>
       ELSE <<Take(s, i - 1)>> \o Split(Drop(s, i), c)

\* s.split(c, maxsplit=1)
SplitOnce(s, c) ==
    LET i == IndexOf(s, c, 1)
    IN IF i = 0 THEN <<s>> ELSE <<Take(s, i - 1), Drop(s, i)>>

RECURSIVE Join(_, _)
\* c.join(parts)
Join(parts, c) ==
    IF parts = <<>> THEN <<>>
    ELSE IF Len(parts) = 1 THEN parts[1]
    ELSE parts[1] \o <<c>> \o Join(Tail(parts), c)

\* [item for item in parts if item]
NonEmpty(parts) ==
    SelectSeq(parts, LAMBDA item : item # <<>>)

\* The elements of a sequence.
Range(s) ==
    {s[i] : i \in DOMAIN s}

(***************************************************************************)
(* Path mapping, normalisation and parsing.                                *)
(***************************************************************************)

S3Scheme == <<"s", "3", ":", SL, SL>>

RECURSIVE _map_path(_, _)
\* path_mapping is the sequence of the dict's (k, v) items in insertion order;
\* <<>> stands for path_mapping=None as well as for an empty dict.
_map_path(filepath, path_mapping) ==
    IF path_mapping = <<>> THEN filepath
    ELSE _map_path(Replace(filepath, path_mapping[1][1], path_mapping[1][2]),
                   Tail(path_mapping))

\* _format_path with count=1: only the first run of backslashes is replaced.
_format_path_FirstRun(filepath) ==
    LET first == IndexOf(filepath, BS, 1)
        after == CHOOSE n \in first..(Len(filepath) + 1) :
                     /\ n > Len(filepath) \/ filepath[n] # BS
                     /\ \A m \in first..(n - 1) : filepath[m] = BS
    IN IF first = 0 THEN filepath
       ELSE Take(filepath, first - 1) \o <<SL>> \o Drop(filepath, after - 1)

RECURSIVE _format_path(_)
\* re.sub(r'\\+', '/', filepath): every maximal run of backslashes becomes one
\* forward slash.
_format_path(filepath) ==
    IF filepath = <<>> THEN <<>>
    ELSE IF Head(filepath) = BS
         THEN IF Len(filepath) > 1 /\ filepath[2] = BS
              THEN _format_path(Tail(filepath))
              ELSE <<SL>> \o _format_path(Tail(filepath))
         ELSE <<Head(filepath)>> \o _format_path(Tail(filepath))

\* re.compile('s3://(.+)').match(filepath).groups()[0], or <<>> when there is
\* no match: the pattern is anchored at the start, '.' matches every character
\* but a newline and '+' is greedy.
parse_bucket(filepath) ==
    IF ~StartsWith(filepath, S3Scheme) THEN <<>>
    ELSE LET rest == Drop(filepath, Len(S3Scheme))
             nl == IndexOf(rest, NL, 1)
         IN IF nl = 0 THEN rest ELSE Take(rest, nl - 1)

NoLocation == [ok |-> FALSE, bucket |-> <<>>, obj_name |-> <<>>]

\* _parse_path: ok = FALSE stands for the ValueError of line 117.
_parse_path(filepath, path_mapping) ==
    LET path == parse_bucket(_format_path(_map_path(filepath, path_mapping)))
        path_split == SplitOnce(path, SL)
    IN IF path = <<>> THEN NoLocation
       ELSE [ok |-> TRUE,
             bucket |-> path_split[1],
             obj_name |-> IF Len(path_split) > 1 THEN path_split[2] ELSE <<>>]

(***************************************************************************)
(* The bucket and the inputs of the operations.                            *)
(***************************************************************************)

\* The one bucket of the model.
Bucket == <<"b">>

\* Object keys the bucket may hold: a directory-marker object (a key ending
\* with '/'), files one, two and three levels deep, a key that repeats the
\* prefix 'd/' below it, and a key outside 'd/'.
KeyUniverse ==
    { <<"d", SL>>,
      <<"d", SL, "x", ".", "c">>,
      <<"d", SL, "y", SL, "z", ".", "t">>,
      <<"d", SL, "d", SL, "x", ".", "t">>,
      <<"a", ".", "t">> }

RECURSIVE SeqsOver(_, _)
\* The sequences of at most n distinct elements of S.
SeqsOver(S, n) ==
    IF n = 0 THEN {<<>>}
    ELSE LET shorter == SeqsOver(S, n - 1)
         IN shorter \cup
            UNION {{Append(q, k) : k \in S \ Range(q)} :
                   q \in {r \in shorter : Len(r) = n - 1}}

\* What the bucket may hold, in the order the store lists it.
KeySeqs == SeqsOver(KeyUniverse, MaxKeys)

\* The suffix argument: kind "none" is suffix=None, "str" one string (vals[1]),
\* "tuple" a tuple of strings, "other" a value of any other type (a list).
NoSuffix == [kind |-> "none", vals |-> <<>>]

Suffixes ==
    { NoSuffix,
      [kind |-> "str", vals |-> << <<".", "t">> >>],
      [kind |-> "tuple", vals |-> << <<".", "c">>, <<SL>> >>],
      [kind |-> "other", vals |-> << <<".", "t">> >>] }

\* The dir_path arguments: the bucket root, the directory 'd' with and without
\* its trailing slash and written with a backslash, and a path without scheme.
DirPaths ==
    { S3Scheme \o Bucket,
      S3Scheme \o Bucket \o <<SL, "d">>,
      S3Scheme \o Bucket \o <<SL, "d", SL>>,
      S3Scheme \o Bucket \o <<BS, "d">>,
      Bucket \o <<SL, "d">> }

(***************************************************************************)
(* list_dir_or_file: the body of the loop over one response's Contents.    *)
(***************************************************************************)

\* PathEndsWith with only the first string of a tuple tried.
PathEndsWith_FirstOnly(path, suffix) ==
    EndsWith(path, suffix.vals[1])

\* path.endswith(suffix) for a str or a tuple of str.
PathEndsWith(path, suffix) ==
    \E i \in DOMAIN suffix.vals : EndsWith(path, suffix.vals[i])

\* content['Key'][len(root):]
RelPath(key, root) ==
    Drop(key, Len(root))

\* [item for item in path.replace(root, '').split('/') if item]
SparsePath(path, root) ==
    NonEmpty(Split(Replace(path, root, <<>>), SL))

\* The directories lines 425-429 resolve from sparse_path, outermost first.
RelDirs(sparse_path) ==
    [lvl \in 1..(Len(sparse_path) - 1) |-> Join(Take(sparse_path, lvl), SL)]

\* Lines 402-432 for one key: the entries it yields, in order, and
\* duplicate_paths after it.
ProcessKey(key, root, opts, dups) ==
    LET path == RelPath(key, root)
        sparse_path == SparsePath(path, root)
        level == Len(sparse_path)
        rel_dirs == RelDirs(sparse_path)
        fresh == SelectSeq(rel_dirs, LAMBDA rel_dir : rel_dir \notin dups)
    IN IF level = 0 THEN [out |-> <<>>, dups |-> dups]
       ELSE IF level > 1 /\ ~opts.recursive
       THEN IF opts.list_dir /\ sparse_path[1] \notin dups
            THEN [out |-> <<sparse_path[1] \o <<SL>>>>,
                  dups |-> dups \cup {sparse_path[1]}]
            ELSE [out |-> <<>>, dups |-> dups]
       ELSE [out |-> (IF opts.list_dir
                      THEN [i \in DOMAIN fresh |-> fresh[i] \o <<SL>>]
                      ELSE <<>>)
                     \o
                     (IF opts.list_file /\ (opts.suffix.kind = "none"
                                            \/ PathEndsWith(path, opts.suffix))
                      THEN <<path>>
                      ELSE <<>>),
             dups |-> IF opts.list_dir THEN dups \cup Range(rel_dirs) ELSE dups]

(***************************************************************************)
(* State.                                                                  *)
(***************************************************************************)

VARIABLES
    objects,          \* the bucket's keys, in the order the store lists them
    lpc,              \* list_dir_or_file: where the call and its generator are
    dir_path,         \* the dir_path local: the argument, then the root (360-367)
    opts,             \* list_dir, list_file, suffix and recursive of the call
    error,            \* the exception the call raised, "" for none
    pulling,          \* the consumer is inside next() on the generator
    start_token,      \* start_token of the innermost _list_dir_or_file frame
    pager,            \* response_iterator of that frame
    next_token,       \* next_token of that frame
    response,         \* response['Contents'] of the response being read
    ci,               \* index in response of the next content to read
    duplicate_paths,  \* the set of line 370
    pending,          \* entries the current key still has to yield
    yielded,          \* every entry handed to the consumer, in order
    requests,         \* the start position of every list_objects_v2 request
    seen,             \* every key the loop body has read, in order
    buckets,          \* the buckets that exist
    spc,              \* exists, get_local_path: where the operation is
    op,               \* the operation called and its filepath
    ret,              \* what the operation returned: "None", "True", "False"
    serr,             \* the exception the operation raised, "" for none
    tmp,              \* the temporary file: "none", "open", "closed", "removed"
    calls,            \* the requests the operation sent to the store, in order
    raw,              \* _parse_path: the filepath argument
    mapping,          \* the backend's path_mapping
    parsed,           \* what _parse_path returned
    ppc,              \* _parse_path: "idle", then "done"
    formatted,        \* the results of successive _format_path calls
    other             \* the list_dir_or_file call the consumer is not pulling

listVars ==
    <<lpc, dir_path, opts, error, pulling, start_token, pager, next_token,
      response, ci, duplicate_paths, pending, yielded, requests, seen>>

storeVars == <<buckets, spc, op, ret, serr, tmp, calls>>

pathVars == <<raw, mapping, parsed, ppc, formatted>>

vars == <<objects, listVars, storeVars, pathVars, other>>

\* None, for a continuation token: a token is the number of keys the store has
\* already returned, which is at least one.
NoToken == 0

NoOpts ==
    [list_dir |-> FALSE, list_file |-> FALSE, suffix |-> NoSuffix,
     recursive |-> FALSE]

IdlePager == [pos |-> 0, total_items |-> 0, exhausted |-> TRUE]

\* What list_objects_v2 lists under Prefix=root: the keys that start with it.
Listing(root) ==
    SelectSeq(objects, LAMBDA key : StartsWith(key, root))

\* No list_dir_or_file call is in progress.
ListIdle ==
    /\ lpc = "idle"
    /\ dir_path = <<>>
    /\ opts = NoOpts
    /\ error = ""
    /\ pulling = FALSE
    /\ start_token = NoToken
    /\ pager = IdlePager
    /\ next_token = NoToken
    /\ response = <<>>
    /\ ci = 1
    /\ duplicate_paths = {}
    /\ pending = <<>>
    /\ yielded = <<>>
    /\ requests = <<>>
    /\ seen = <<>>

\* The locals of a list_dir_or_file call and of its generator, as one value.
IdleCall ==
    [lpc |-> "idle", dir_path |-> <<>>, opts |-> NoOpts, error |-> "",
     start_token |-> NoToken, pager |-> IdlePager, next_token |-> NoToken,
     response |-> <<>>, ci |-> 1, duplicate_paths |-> {}, pending |-> <<>>,
     yielded |-> <<>>, requests |-> <<>>, seen |-> <<>>]

NoOp == [name |-> "", filepath |-> <<>>]

\* No operation on a single path is in progress.
StoreIdle ==
    /\ spc = "idle"
    /\ op = NoOp
    /\ ret = "None"
    /\ serr = ""
    /\ tmp = "none"
    /\ calls = <<>>

\* No _parse_path call is under study.
PathIdle ==
    /\ raw = <<>>
    /\ mapping = <<>>
    /\ parsed = NoLocation
    /\ ppc = "idle"
    /\ formatted = <<>>

ListInit ==
    /\ objects \in KeySeqs
    /\ buckets = {Bucket}
    /\ other = IdleCall
    /\ ListIdle
    /\ StoreIdle
    /\ PathIdle

(***************************************************************************)
(* list_dir_or_file (lines 321-443).                                       *)
(***************************************************************************)

\* ListDirOrFile with the path parsed before the arguments are checked.
ListDirOrFile_ParseFirst(path_arg, list_dir, list_file, suffix, recursive) ==
    LET loc == _parse_path(path_arg, <<>>)
        obj_name == loc.obj_name
        root == IF obj_name # <<>> /\ ~EndsWith(obj_name, <<SL>>)
                THEN obj_name \o <<SL>>
                ELSE obj_name
    IN /\ lpc = "idle"
       /\ opts' = [list_dir |-> list_dir, list_file |-> list_file,
                   suffix |-> suffix, recursive |-> recursive]
       /\ IF ~loc.ok
          THEN /\ error' = "ValueError"
               /\ lpc' = "raised"
               /\ dir_path' = path_arg
          ELSE IF (list_dir /\ suffix.kind # "none") \/ suffix.kind = "other"
          THEN /\ error' = "TypeError"
               /\ lpc' = "raised"
               /\ dir_path' = path_arg
          ELSE /\ error' = ""
               /\ lpc' = "start"
               /\ dir_path' = root
       /\ UNCHANGED <<storeVars, pathVars, other>>
       /\ UNCHANGED <<objects, pulling, start_token, pager, next_token,
                      response, ci, duplicate_paths, pending, yielded,
                      requests, seen>>

\* Lines 352-367 and 442: the checks, the root, and the generator object. The
\* body of _list_dir_or_file does not run before the first next().
ListDirOrFile(path_arg, list_dir, list_file, suffix, recursive) ==
    LET loc == _parse_path(path_arg, <<>>)
        obj_name == loc.obj_name
        root == IF obj_name # <<>> /\ ~EndsWith(obj_name, <<SL>>)
                THEN obj_name \o <<SL>>
                ELSE obj_name
    IN /\ lpc = "idle"
       /\ opts' = [list_dir |-> list_dir, list_file |-> list_file,
                   suffix |-> suffix, recursive |-> recursive]
       /\ IF list_dir /\ suffix.kind # "none"
          THEN /\ error' = "TypeError"
               /\ lpc' = "raised"
               /\ dir_path' = path_arg
          ELSE IF suffix.kind = "other"
          THEN /\ error' = "TypeError"
               /\ lpc' = "raised"
               /\ dir_path' = path_arg
          ELSE IF ~loc.ok
          THEN /\ error' = "ValueError"
               /\ lpc' = "raised"
               /\ dir_path' = path_arg
          ELSE /\ error' = ""
               /\ lpc' = "start"
               /\ dir_path' = root
       /\ UNCHANGED <<storeVars, pathVars, other>>
       /\ UNCHANGED <<objects, pulling, start_token, pager, next_token,
                      response, ci, duplicate_paths, pending, yielded,
                      requests, seen>>

Call ==
    \E path_arg \in DirPaths, list_dir \in BOOLEAN, list_file \in BOOLEAN,
       suffix \in Suffixes, recursive \in BOOLEAN :
        ListDirOrFile(path_arg, list_dir, list_file, suffix, recursive)

\* The consumer calls next() on the generator.
Pull ==
    /\ lpc \in {"start", "pages", "contents", "tail"}
    /\ ~pulling
    /\ pulling' = TRUE
    /\ UNCHANGED <<storeVars, pathVars, other>>
    /\ UNCHANGED <<objects, lpc, dir_path, opts, error, start_token, pager,
                   next_token, response, ci, duplicate_paths, pending,
                   yielded, requests, seen>>

\* Lines 387-395: paginate() builds the iterator and sends nothing.
Paginate ==
    /\ pulling
    /\ lpc = "start"
    /\ pager' = [pos |-> start_token, total_items |-> 0, exhausted |-> FALSE]
    /\ next_token' = NoToken
    /\ lpc' = "pages"
    /\ UNCHANGED <<storeVars, pathVars, other>>
    /\ UNCHANGED <<objects, dir_path, opts, error, pulling, start_token,
                   response, ci, duplicate_paths, pending, yielded, requests,
                   seen>>

\* NextResponse sent ahead of the consumer: the request waits neither for
\* next() nor for the end of the response before it.
NextResponse_Prefetch(n) ==
    LET listing == Listing(dir_path)
        left == Len(listing) - pager.pos
        token == IF pager.pos + n < Len(listing) THEN pager.pos + n ELSE NoToken
        truncate_amount == pager.total_items + n - MaxItems
        kept == IF truncate_amount > 0 THEN n - truncate_amount ELSE n
    IN /\ lpc \in {"pages", "contents"}
       /\ ~pager.exhausted
       /\ pending = <<>>
       /\ n <= left
       /\ n <= PageSize
       /\ n >= 1 \/ left = 0
       /\ requests' = Append(requests, pager.pos)
       /\ next_token' = IF token # NoToken THEN token ELSE next_token
       /\ response' = SubSeq(listing, pager.pos + 1, pager.pos + kept)
       /\ ci' = 1
       /\ pager' = [pos |-> pager.pos + n,
                    total_items |-> pager.total_items + kept,
                    exhausted |-> \/ truncate_amount > 0
                                  \/ token = NoToken
                                  \/ pager.total_items + n = MaxItems]
       /\ lpc' = "contents"
       /\ UNCHANGED <<storeVars, pathVars, other>>
       /\ UNCHANGED <<objects, dir_path, opts, error, pulling, start_token,
                      duplicate_paths, pending, yielded, seen>>

\* Line 396, the iterator's next response. The store answers the request that
\* starts after pager.pos keys with n keys (at most PageSize, the MaxKeys it is
\* sent) and, when keys remain, a NextContinuationToken. The paginator cuts
\* the Contents of the response that passes MaxItems and stops after it, and
\* stops on a response without token or one that reaches MaxItems.
NextResponse(n) ==
    LET listing == Listing(dir_path)
        left == Len(listing) - pager.pos
        token == IF pager.pos + n < Len(listing) THEN pager.pos + n ELSE NoToken
        truncate_amount == pager.total_items + n - MaxItems
        kept == IF truncate_amount > 0 THEN n - truncate_amount ELSE n
    IN /\ pulling
       /\ lpc = "pages"
       /\ ~pager.exhausted
       /\ pending = <<>>
       /\ n <= left
       /\ n <= PageSize
       /\ n >= 1 \/ left = 0
       /\ requests' = Append(requests, pager.pos)
       /\ next_token' = IF token # NoToken THEN token ELSE next_token
       /\ response' = SubSeq(listing, pager.pos + 1, pager.pos + kept)
       /\ ci' = 1
       /\ pager' = [pos |-> pager.pos + n,
                    total_items |-> pager.total_items + kept,
                    exhausted |-> \/ truncate_amount > 0
                                  \/ token = NoToken
                                  \/ pager.total_items + n = MaxItems]
       /\ lpc' = "contents"
       /\ UNCHANGED <<storeVars, pathVars, other>>
       /\ UNCHANGED <<objects, dir_path, opts, error, pulling, start_token,
                      duplicate_paths, pending, yielded, seen>>

FetchPage ==
    \E n \in 0..PageSize : NextResponse(n)

\* Lines 401-432 for the next content of the response.
ProcessContent ==
    /\ pulling
    /\ lpc = "contents"
    /\ pending = <<>>
    /\ ci <= Len(response)
    /\ LET r == ProcessKey(response[ci], dir_path, opts, duplicate_paths)
       IN /\ pending' = r.out
          /\ duplicate_paths' = r.dups
    /\ seen' = Append(seen, response[ci])
    /\ ci' = ci + 1
    /\ UNCHANGED <<storeVars, pathVars, other>>
    /\ UNCHANGED <<objects, lpc, dir_path, opts, error, pulling, start_token,
                   pager, next_token, response, requests, yielded>>

\* A yield of lines 418, 428 or 432: the consumer's next() returns the entry.
Yield ==
    /\ pulling
    /\ pending # <<>>
    /\ yielded' = Append(yielded, Head(pending))
    /\ pending' = Tail(pending)
    /\ pulling' = FALSE
    /\ UNCHANGED <<storeVars, pathVars, other>>
    /\ UNCHANGED <<objects, lpc, dir_path, opts, error, start_token, pager,
                   next_token, response, ci, duplicate_paths, requests, seen>>

\* The end of the loop of line 401: back to line 396.
EndContents ==
    /\ pulling
    /\ lpc = "contents"
    /\ pending = <<>>
    /\ ci > Len(response)
    /\ lpc' = "pages"
    /\ UNCHANGED <<storeVars, pathVars, other>>
    /\ UNCHANGED <<objects, dir_path, opts, error, pulling, start_token,
                   pager, next_token, response, ci, duplicate_paths, pending,
                   yielded, requests, seen>>

\* The iterator is exhausted: the loop of line 396 ends.
EndPages ==
    /\ pulling
    /\ lpc = "pages"
    /\ pager.exhausted
    /\ lpc' = "tail"
    /\ UNCHANGED <<storeVars, pathVars, other>>
    /\ UNCHANGED <<objects, dir_path, opts, error, pulling, start_token,
                   pager, next_token, response, ci, duplicate_paths, pending,
                   yielded, requests, seen>>

\* Lines 433-440: yield from a new frame that starts at next_token.
Recurse ==
    /\ pulling
    /\ lpc = "tail"
    /\ next_token # NoToken
    /\ start_token' = next_token
    /\ lpc' = "start"
    /\ UNCHANGED <<storeVars, pathVars, other>>
    /\ UNCHANGED <<objects, dir_path, opts, error, pulling, pager,
                   next_token, response, ci, duplicate_paths, pending,
                   yielded, requests, seen>>

\* The innermost frame returns and with it every frame that yields from it:
\* next() raises StopIteration.
Finish ==
    /\ pulling
    /\ lpc = "tail"
    /\ next_token = NoToken
    /\ lpc' = "done"
    /\ pulling' = FALSE
    /\ UNCHANGED <<storeVars, pathVars, other>>
    /\ UNCHANGED <<objects, dir_path, opts, error, start_token, pager,
                   next_token, response, ci, duplicate_paths, pending,
                   yielded, requests, seen>>

ListNext ==
    \/ Call
    \/ Pull
    \/ Paginate
    \/ FetchPage
    \/ ProcessContent
    \/ Yield
    \/ EndContents
    \/ EndPages
    \/ Recurse
    \/ Finish

SpecList == ListInit /\ [][ListNext]_vars

(***************************************************************************)
(* Properties of list_dir_or_file.                                         *)
(***************************************************************************)

\* The generator of a call exists (the call raised nothing).
Listed == lpc \in {"start", "pages", "contents", "tail", "done"}

\* The non-empty '/'-separated segments of a relative path.
Segments(rel) ==
    SelectSeq(Split(rel, SL), LAMBDA seg : Len(seg) > 0)

\* An entry that ends with '/'.
IsDirEntry(entry) ==
    Len(entry) > 0 /\ entry[Len(entry)] = SL

\* How often entry occurs in a sequence of entries.
Count(entries, entry) ==
    Cardinality({i \in DOMAIN entries : entries[i] = entry})

\* The key without the root prefix it starts with.
Relative(key) ==
    SubSeq(key, Len(dir_path) + 1, Len(key))

RECURSIVE OnePage(_, _)
\* The entries of a traversal that reads keys from one response.
OnePage(keys, dups) ==
    IF keys = <<>> THEN <<>>
    ELSE LET r == ProcessKey(Head(keys), dir_path, opts, dups)
         IN r.out \o OnePage(Tail(keys), r.dups)

\* C1: in a non-recursive listing every yielded entry has exactly one
\* non-empty segment, and no key nested two or more levels below the root is
\* yielded as a file entry.
C1_DirectChildrenOnly ==
    (Listed /\ ~opts.recursive) =>
        /\ \A i \in DOMAIN yielded : Len(Segments(yielded[i])) = 1
        /\ \A key \in Range(Listing(dir_path)) :
               Len(Segments(Relative(key))) >= 2
                   => Relative(key) \notin Range(yielded)

\* C2: no entry that ends with '/' occurs twice in the sequence one call
\* yields.
C2_NoDirectoryTwice ==
    Listed =>
        \A i, j \in DOMAIN yielded :
            (i < j /\ IsDirEntry(yielded[i])) => yielded[i] # yielded[j]

\* C3: a traversal consumed to the end yields the set of entries the same
\* keys yield when they arrive in one page, and no directory entry more often
\* than they do.
C3_PaginationSameResult ==
    lpc = "done" =>
        LET one == OnePage(Listing(dir_path), {})
        IN /\ Range(yielded) = Range(one)
           /\ \A entry \in Range(yielded) :
                  IsDirEntry(entry)
                      => Count(yielded, entry) <= Count(one, entry)

\* C4: a recursive listing with list_dir, consumed to the end, yields every
\* strict directory prefix of every key's relative path exactly once.
C4_EveryPrefixDirectoryOnce ==
    (lpc = "done" /\ opts.recursive /\ opts.list_dir) =>
        \A key \in Range(Listing(dir_path)) :
            LET segs == Segments(Relative(key))
            IN \A n \in 1..(Len(segs) - 1) :
                   Count(yielded, Join(SubSeq(segs, 1, n), SL) \o <<SL>>) = 1

\* C5: a call with list_dir and a suffix raises the TypeError of line 353,
\* whatever the other arguments and the bucket hold; no request has been
\* sent and no entry yielded, and the generator was never created.
C5_DirWithSuffixRaises ==
    (lpc # "idle" /\ opts.list_dir /\ opts.suffix.kind # "none") =>
        /\ lpc = "raised"
        /\ error = "TypeError"
        /\ requests = <<>>
        /\ yielded = <<>>
        /\ ~pulling

\* C5 happens: the call raised for a dir_path that is no s3 path, list_file
\* false and recursive true, over a bucket that holds keys.
C5_Witness ==
    /\ lpc = "raised"
    /\ error = "TypeError"
    /\ opts.list_dir
    /\ opts.suffix.kind = "str"
    /\ ~opts.list_file
    /\ opts.recursive
    /\ ~_parse_path(dir_path, <<>>).ok
    /\ objects # <<>>

\* One of the allowed suffixes ends the text.
HasAllowedSuffix(text) ==
    \E s \in Range(opts.suffix.vals) :
        /\ Len(s) <= Len(text)
        /\ \A n \in 1..Len(s) : text[Len(text) - Len(s) + n] = s[n]

\* The key is yielded as a file when the call has no suffix filter.
FileWithoutFilter(key) ==
    Relative(key) \in
        Range(ProcessKey(key, dir_path, [opts EXCEPT !.suffix = NoSuffix],
                         {}).out)

\* C10: with list_dir false, list_file true and a str or tuple suffix, every
\* entry yielded ends with an allowed suffix, and every key read that the
\* unfiltered listing yields as a file and that ends with an allowed suffix is
\* yielded (or about to be, while its next() is running).
C10_SuffixFilter ==
    (Listed /\ ~opts.list_dir /\ opts.list_file
            /\ opts.suffix.kind \in {"str", "tuple"}) =>
        /\ \A i \in DOMAIN yielded : HasAllowedSuffix(yielded[i])
        /\ \A key \in Range(seen) :
               (FileWithoutFilter(key) /\ HasAllowedSuffix(Relative(key)))
                   => Relative(key) \in Range(yielded) \cup Range(pending)

\* C10 happens: a traversal with a tuple suffix ended having yielded a key and
\* having filtered out a key the unfiltered listing yields.
C10_Witness ==
    /\ lpc = "done"
    /\ ~opts.list_dir
    /\ opts.list_file
    /\ opts.suffix.kind = "tuple"
    /\ yielded # <<>>
    /\ \E key \in Range(seen) :
           FileWithoutFilter(key) /\ Relative(key) \notin Range(yielded)

RECURSIVE EntriesOf(_, _, _, _)
\* The entries lines 402-432 yield for the keys, read in this order by a call
\* with this root and these options whose duplicate_paths starts as dups.
EntriesOf(keys, root, o, dups) ==
    IF keys = <<>> THEN <<>>
    ELSE LET r == ProcessKey(Head(keys), root, o, dups)
         IN r.out \o EntriesOf(Tail(keys), root, o, r.dups)

\* C12: when list_dir is false no yielded entry ends with '/', whatever keys
\* the bucket holds, keys that end with '/' included.
C12_NoSlashEntryWithoutListDir ==
    (Listed /\ ~opts.list_dir) =>
        \A i \in DOMAIN yielded : ~IsDirEntry(yielded[i])

\* C13: a traversal consumed to the end has sent no two requests that start at
\* the same position of the listing (no continuation token used twice, no page
\* fetched twice) and has yielded no file entry more than once.
C13_EveryPageOnce ==
    lpc = "done" =>
        /\ \A i, j \in DOMAIN requests : i # j => requests[i] # requests[j]
        /\ \A i, j \in DOMAIN yielded :
               (i # j /\ ~IsDirEntry(yielded[i])) => yielded[i] # yielded[j]

\* C14: a request is sent only while the consumer is inside next(), and only
\* when every content of the response before it has been read and every entry
\* those contents produce has been handed to the consumer: nothing is sent
\* before the first next() nor after the consumer stops calling it.
C14_LazyPaging ==
    [][requests' # requests =>
           /\ pulling
           /\ pending = <<>>
           /\ ci > Len(response)
           /\ yielded = EntriesOf(seen, dir_path, opts, {})
           /\ Len(requests') = Len(requests) + 1]_vars

\* C14 happens: the consumer holds an entry of the second response of a
\* traversal that has more to read, and is not inside next().
C14_Witness ==
    /\ lpc = "contents"
    /\ ~pulling
    /\ Len(requests) = 2
    /\ yielded # <<>>
    /\ ~pager.exhausted

\* The directory entries an entry lies below, outermost first.
DirPrefixes(entry) ==
    LET segs == Segments(entry)
    IN [n \in 1..(Len(segs) - 1) |-> Join(SubSeq(segs, 1, n), SL) \o <<SL>>]

\* C16: the entries are yielded in the order their keys arrive, those of a key
\* after those of every key read before it; and in a recursive listing with
\* list_dir and list_file every directory prefix of a yielded file entry was
\* yielded before it.
C16_ArrivalOrder ==
    Listed =>
        /\ yielded \o pending = EntriesOf(seen, dir_path, opts, {})
        /\ (opts.recursive /\ opts.list_dir /\ opts.list_file) =>
               \A j \in DOMAIN yielded :
                   ~IsDirEntry(yielded[j]) =>
                       \A prefix \in Range(DirPrefixes(yielded[j])) :
                           \E i \in 1..(j - 1) : yielded[i] = prefix

(***************************************************************************)
(* Two list_dir_or_file calls on one backend, consumed in turns.           *)
(***************************************************************************)

\* What the bucket may hold when two calls list it: two files of 'd/', one
\* of them a level deeper, and a file outside it.
TwoCallsKeySeqs ==
    SeqsOver({ <<"d", SL, "x", ".", "c">>,
               <<"d", SL, "y", SL, "z", ".", "t">>,
               <<"a", ".", "t">> }, MaxKeysTwoCalls)

TwoCallsInit ==
    /\ objects \in TwoCallsKeySeqs
    /\ buckets = {Bucket}
    /\ other = IdleCall
    /\ ListIdle
    /\ StoreIdle
    /\ PathIdle

\* A call that lists directories and files of the bucket root or of 'd'.
CallOfTwo ==
    \E path_arg \in {S3Scheme \o Bucket, S3Scheme \o Bucket \o <<SL, "d">>},
       recursive \in BOOLEAN :
        ListDirOrFile(path_arg, TRUE, TRUE, NoSuffix, recursive)

\* Swap with one duplicate_paths set for both calls (a set kept on self).
Swap_SharedSet ==
    /\ ~pulling
    /\ lpc' = other.lpc
    /\ dir_path' = other.dir_path
    /\ opts' = other.opts
    /\ error' = other.error
    /\ start_token' = other.start_token
    /\ pager' = other.pager
    /\ next_token' = other.next_token
    /\ response' = other.response
    /\ ci' = other.ci
    /\ duplicate_paths' = duplicate_paths
    /\ pending' = other.pending
    /\ yielded' = other.yielded
    /\ requests' = other.requests
    /\ seen' = other.seen
    /\ other' = [lpc |-> lpc, dir_path |-> dir_path, opts |-> opts, error |->
                 error, start_token |-> start_token, pager |-> pager,
                 next_token |-> next_token, response |-> response, ci |-> ci,
                 duplicate_paths |-> duplicate_paths, pending |-> pending,
                 yielded |-> yielded, requests |-> requests, seen |-> seen]
    /\ UNCHANGED <<objects, pulling, storeVars, pathVars>>

\* The consumer, between two next() calls, turns to the other call: to its
\* generator, or to list_dir_or_file when it has not been called yet. Each
\* call has its own locals, duplicate_paths (line 370) among them, and each
\* generator its own frames.
Swap ==
    /\ ~pulling
    /\ lpc' = other.lpc
    /\ dir_path' = other.dir_path
    /\ opts' = other.opts
    /\ error' = other.error
    /\ start_token' = other.start_token
    /\ pager' = other.pager
    /\ next_token' = other.next_token
    /\ response' = other.response
    /\ ci' = other.ci
    /\ duplicate_paths' = other.duplicate_paths
    /\ pending' = other.pending
    /\ yielded' = other.yielded
    /\ requests' = other.requests
    /\ seen' = other.seen
    /\ other' = [lpc |-> lpc, dir_path |-> dir_path, opts |-> opts, error |->
                 error, start_token |-> start_token, pager |-> pager,
                 next_token |-> next_token, response |-> response, ci |-> ci,
                 duplicate_paths |-> duplicate_paths, pending |-> pending,
                 yielded |-> yielded, requests |-> requests, seen |-> seen]
    /\ UNCHANGED <<objects, pulling, storeVars, pathVars>>

TwoCallsNext ==
    \/ CallOfTwo
    \/ Pull
    \/ Paginate
    \/ FetchPage
    \/ ProcessContent
    \/ Yield
    \/ EndContents
    \/ EndPages
    \/ Recurse
    \/ Finish
    \/ Swap

SpecTwoCalls == TwoCallsInit /\ [][TwoCallsNext]_vars

\* The call sent its first request, when it sent one, without a token, and
\* what it yielded is what its own arguments make of the keys it has read,
\* with a duplicate_paths set that started empty.
YieldsAsAlone(call) ==
    /\ call.requests # <<>> => call.requests[1] = NoToken
    /\ call.lpc \in {"start", "pages", "contents", "tail", "done"} =>
           call.yielded \o call.pending
               = EntriesOf(call.seen, call.dir_path, call.opts, {})

\* C17: of two calls on one backend, consumed in any interleaving or one
\* after the other, each yields what it yields alone: no directory one call
\* has emitted is missing from the other, and each call scans from the first
\* page.
C17_CallsShareNothing ==
    /\ YieldsAsAlone(other)
    /\ YieldsAsAlone([lpc |-> lpc, dir_path |-> dir_path, opts |-> opts,
                      requests |-> requests, seen |-> seen,
                      yielded |-> yielded, pending |-> pending])

\* C17 happens: one call has ended while the other, on the same directory, is
\* suspended in the middle of a response; both have sent two requests and
\* both have yielded the directory 'd/'.
C17_Witness ==
    /\ lpc = "done"
    /\ other.lpc = "contents"
    /\ dir_path = other.dir_path
    /\ Len(requests) >= 2
    /\ Len(other.requests) >= 2
    /\ <<"d", SL>> \in Range(yielded)
    /\ <<"d", SL>> \in Range(other.yielded)

(***************************************************************************)
(* Operations on one path: exists, isdir, isfile, put, get_local_path.      *)
(***************************************************************************)

\* The filepath arguments: a file, a directory with its trailing slash, the
\* bucket root, a file of a bucket that does not exist, a path without
\* scheme, and a file written with a backslash.
FilePaths ==
    { S3Scheme \o Bucket \o <<SL, "d", SL, "x", ".", "c">>,
      S3Scheme \o Bucket \o <<SL, "a", ".", "t">>,
      S3Scheme \o Bucket \o <<SL, "d", SL>>,
      S3Scheme \o Bucket,
      S3Scheme \o <<"n", SL, "a", ".", "t">>,
      Bucket \o <<SL, "a", ".", "t">>,
      S3Scheme \o Bucket \o <<BS, "a", ".", "t">> }

\* head_bucket answers without error.
HeadBucketOk(bucket) ==
    bucket \in buckets

\* head_object answers without error.
HeadObjectOk(bucket, obj_name) ==
    bucket \in buckets /\ bucket = Bucket /\ obj_name \in Range(objects)

\* IsFileKey without the test for the empty key.
IsFileKey_EmptyIsFile(obj_name) ==
    ~EndsWith(obj_name, <<SL>>)

\* Lines 268-271 once _check_bucket has returned True.
IsFileKey(obj_name) ==
    ~EndsWith(obj_name, <<SL>>) /\ obj_name # <<>>

\* _check_bucket (lines 126-139) inside isdir and isfile: the answer when the
\* probe succeeds, the exception when it fails; ValueError is _parse_path's.
Answer(loc, verdict) ==
    IF ~loc.ok THEN [serr |-> "ValueError", ret |-> "None", calls |-> <<>>]
    ELSE IF ~HeadBucketOk(loc.bucket)
    THEN [serr |-> "check_exception", ret |-> "None",
          calls |-> <<"head_bucket">>]
    ELSE [serr |-> "", ret |-> IF verdict THEN "True" ELSE "False",
          calls |-> <<"head_bucket">>]

\* isdir that takes only a key with a trailing slash for a directory.
isdir_SlashOnly(filepath) ==
    LET loc == _parse_path(filepath, <<>>)
    IN Answer(loc, EndsWith(loc.obj_name, <<SL>>))

\* isdir (lines 240-255).
isdir(filepath) ==
    LET loc == _parse_path(filepath, <<>>)
    IN Answer(loc, EndsWith(loc.obj_name, <<SL>>) \/ loc.obj_name = <<>>)

\* isfile (lines 257-271).
isfile(filepath) ==
    LET loc == _parse_path(filepath, <<>>)
    IN Answer(loc, IsFileKey(loc.obj_name))

StoreInit ==
    /\ \/ buckets = {Bucket} /\ objects \in KeySeqs
       \/ buckets = {} /\ objects = <<>>
    /\ other = IdleCall
    /\ ListIdle
    /\ StoreIdle
    /\ PathIdle

\* exists (lines 228-238): _parse_path, then _check_object, which returns True
\* or raises check_exception (lines 151-156).
Exists(filepath) ==
    LET loc == _parse_path(filepath, <<>>)
    IN /\ spc = "idle"
       /\ op' = [name |-> "exists", filepath |-> filepath]
       /\ spc' = "done"
       /\ IF ~loc.ok
          THEN /\ serr' = "ValueError"
               /\ ret' = "None"
               /\ calls' = <<>>
          ELSE /\ calls' = <<"head_object">>
               /\ IF HeadObjectOk(loc.bucket, loc.obj_name)
                  THEN serr' = "" /\ ret' = "True"
                  ELSE serr' = "check_exception" /\ ret' = "None"
       /\ UNCHANGED <<objects, buckets, tmp, listVars, pathVars, other>>

CallExists ==
    \E filepath \in FilePaths : Exists(filepath)

\* get_local_path, line 312: assert self.isfile(filepath). isfile parses the
\* path, probes the bucket (_check_bucket raises check_exception when the
\* probe fails) and looks at the key.
StageEnter(filepath) ==
    LET loc == _parse_path(filepath, <<>>)
    IN /\ spc = "idle"
       /\ op' = [name |-> "get_local_path", filepath |-> filepath]
       /\ IF ~loc.ok
          THEN /\ serr' = "ValueError"
               /\ calls' = <<>>
               /\ spc' = "done"
          ELSE /\ calls' = <<"head_bucket">>
               /\ IF ~HeadBucketOk(loc.bucket)
                  THEN serr' = "check_exception" /\ spc' = "done"
                  ELSE IF ~IsFileKey(loc.obj_name)
                  THEN serr' = "AssertionError" /\ spc' = "done"
                  ELSE serr' = "" /\ spc' = "try"
       /\ UNCHANGED <<objects, buckets, ret, tmp, listVars, pathVars, other>>

CallGetLocalPath ==
    \E filepath \in FilePaths : StageEnter(filepath)

\* Line 314: f = tempfile.NamedTemporaryFile(delete=False).
StageCreate ==
    /\ spc = "try"
    /\ tmp' = "open"
    /\ spc' = "get"
    /\ UNCHANGED <<objects, buckets, op, ret, serr, calls, listVars, pathVars, other>>

\* StageGet outside the try block: an exception skips the finally clause.
StageGet_OutsideTry(downloaded) ==
    /\ spc = "get"
    /\ calls' = calls \o <<"head_object", "download_fileobj">>
    /\ IF downloaded
       THEN serr' = "" /\ spc' = "write"
       ELSE serr' = "TransferError" /\ spc' = "done"
    /\ UNCHANGED <<objects, buckets, op, ret, tmp, listVars, pathVars, other>>

\* Line 315, self.get(filepath) (lines 169-175): _check_object raises when
\* the object is absent; download_fileobj succeeds or fails (downloaded). Any
\* exception leaves the try block for the finally clause.
StageGet(downloaded) ==
    LET loc == _parse_path(op.filepath, <<>>)
    IN /\ spc = "get"
       /\ IF ~HeadObjectOk(loc.bucket, loc.obj_name)
          THEN /\ calls' = Append(calls, "head_object")
               /\ serr' = "check_exception"
               /\ spc' = "finally"
          ELSE /\ calls' = calls \o <<"head_object", "download_fileobj">>
               /\ IF downloaded
                  THEN serr' = "" /\ spc' = "write"
                  ELSE serr' = "TransferError" /\ spc' = "finally"
       /\ UNCHANGED <<objects, buckets, op, ret, tmp, listVars, pathVars, other>>

Download ==
    \E downloaded \in BOOLEAN : StageGet(downloaded)

\* Lines 315-317: f.write, f.close, and the yield that enters the with block.
StageWrite ==
    /\ spc = "write"
    /\ tmp' = "closed"
    /\ spc' = "block"
    /\ UNCHANGED <<objects, buckets, op, ret, serr, calls, listVars, pathVars, other>>

\* The with block removes the file it was given.
BlockRemoves ==
    /\ spc = "block"
    /\ tmp = "closed"
    /\ tmp' = "removed"
    /\ UNCHANGED <<objects, buckets, spc, op, ret, serr, calls, listVars,
                   pathVars, other>>

\* The with block ends, normally or (raises) with an exception, which the
\* context manager throws into the generator at the yield.
BlockExit(raises) ==
    /\ spc = "block"
    /\ serr' = IF raises THEN "BlockError" ELSE ""
    /\ spc' = "finally"
    /\ UNCHANGED <<objects, buckets, op, ret, tmp, calls, listVars, pathVars, other>>

LeaveBlock ==
    \E raises \in BOOLEAN : BlockExit(raises)

\* Lines 318-319: os.remove(f.name), which unlinks the file, open or closed,
\* and raises FileNotFoundError when the file is gone.
StageFinally ==
    /\ spc = "finally"
    /\ IF tmp = "removed"
       THEN serr' = "FileNotFoundError" /\ tmp' = tmp
       ELSE serr' = serr /\ tmp' = "removed"
    /\ spc' = "done"
    /\ UNCHANGED <<objects, buckets, op, ret, calls, listVars, pathVars, other>>

\* A call of isdir.
IsDir(filepath) ==
    /\ spc = "idle"
    /\ op' = [name |-> "isdir", filepath |-> filepath]
    /\ serr' = isdir(filepath).serr
    /\ ret' = isdir(filepath).ret
    /\ calls' = isdir(filepath).calls
    /\ spc' = "done"
    /\ UNCHANGED <<objects, buckets, tmp, listVars, pathVars, other>>

CallIsDir ==
    \E filepath \in FilePaths : IsDir(filepath)

\* A call of isfile.
IsFile(filepath) ==
    /\ spc = "idle"
    /\ op' = [name |-> "isfile", filepath |-> filepath]
    /\ serr' = isfile(filepath).serr
    /\ ret' = isfile(filepath).ret
    /\ calls' = isfile(filepath).calls
    /\ spc' = "done"
    /\ UNCHANGED <<objects, buckets, tmp, listVars, pathVars, other>>

CallIsFile ==
    \E filepath \in FilePaths : IsFile(filepath)

\* PutProbe that goes on to the upload when the probe has failed.
PutProbe_IgnoreProbe(filepath) ==
    LET loc == _parse_path(filepath, <<>>)
    IN /\ spc = "idle"
       /\ op' = [name |-> "put", filepath |-> filepath]
       /\ IF ~loc.ok
          THEN /\ serr' = "ValueError"
               /\ calls' = <<>>
               /\ spc' = "done"
          ELSE /\ calls' = <<"head_bucket">>
               /\ serr' = ""
               /\ spc' = "upload"
       /\ UNCHANGED <<objects, buckets, ret, tmp, listVars, pathVars, other>>

\* put, lines 200-201: _parse_path, then _check_bucket, which raises
\* check_exception when head_bucket fails (lines 135-139).
PutProbe(filepath) ==
    LET loc == _parse_path(filepath, <<>>)
    IN /\ spc = "idle"
       /\ op' = [name |-> "put", filepath |-> filepath]
       /\ IF ~loc.ok
          THEN /\ serr' = "ValueError"
               /\ calls' = <<>>
               /\ spc' = "done"
          ELSE /\ calls' = <<"head_bucket">>
               /\ IF ~HeadBucketOk(loc.bucket)
                  THEN serr' = "check_exception" /\ spc' = "done"
                  ELSE serr' = "" /\ spc' = "upload"
       /\ UNCHANGED <<objects, buckets, ret, tmp, listVars, pathVars, other>>

CallPut ==
    \E filepath \in FilePaths : PutProbe(filepath)

\* put, lines 202-203: upload_fileobj. The store writes the object (a key it
\* holds already keeps its place in the listing) or the transfer fails; it
\* takes no empty key and no bucket it does not have.
PutUpload(uploaded) ==
    LET loc == _parse_path(op.filepath, <<>>)
    IN /\ spc = "upload"
       /\ calls' = Append(calls, "upload_fileobj")
       /\ IF uploaded /\ loc.obj_name # <<>> /\ HeadBucketOk(loc.bucket)
          THEN /\ serr' = ""
               /\ objects' = IF loc.obj_name \in Range(objects) THEN objects
                             ELSE Append(objects, loc.obj_name)
          ELSE /\ serr' = "TransferError"
               /\ objects' = objects
       /\ spc' = "done"
       /\ UNCHANGED <<buckets, op, ret, tmp, listVars, pathVars, other>>

Upload ==
    \E uploaded \in BOOLEAN : PutUpload(uploaded)

StoreNext ==
    \/ CallIsDir
    \/ CallIsFile
    \/ CallPut
    \/ Upload
    \/ CallExists
    \/ CallGetLocalPath
    \/ StageCreate
    \/ Download
    \/ StageWrite
    \/ BlockRemoves
    \/ LeaveBlock
    \/ StageFinally

SpecStore == StoreInit /\ [][StoreNext]_vars

\* The operation's path is a valid s3 path.
OpLocation == _parse_path(op.filepath, <<>>)

\* C6: when a get_local_path scope has ended, the temporary file does not
\* exist, whether the block ended normally, raised, or was never entered
\* because the download failed after the file was created.
C6_TempFileGone ==
    (op.name = "get_local_path" /\ spc = "done") => tmp \in {"none", "removed"}

\* C6 happens: the download failed after the temporary file was created, and
\* the file is gone.
C6_Witness ==
    /\ op.name = "get_local_path"
    /\ spc = "done"
    /\ serr = "TransferError"
    /\ tmp = "removed"

\* C7: get_local_path on an empty key or a key ending with '/' of an existing
\* bucket raises the AssertionError of line 312; no temporary file is
\* created and no download is sent.
C7_DirectoryIsNotStaged ==
    (/\ op.name = "get_local_path"
     /\ OpLocation.ok
     /\ OpLocation.bucket \in buckets
     /\ \/ OpLocation.obj_name = <<>>
        \/ OpLocation.obj_name[Len(OpLocation.obj_name)] = SL) =>
        /\ spc = "done"
        /\ serr = "AssertionError"
        /\ tmp = "none"
        /\ "download_fileobj" \notin Range(calls)

\* C7 happens: get_local_path was called on the directory 'd/', whose marker
\* object the bucket holds.
C7_Witness ==
    /\ op.name = "get_local_path"
    /\ OpLocation.ok
    /\ OpLocation.obj_name = <<"d", SL>>
    /\ OpLocation.obj_name \in Range(objects)
    /\ serr = "AssertionError"

\* C8: exists on a valid s3 path that names an object raises nothing; it
\* returns True when the object is in the store and False when it is not.
C8_ExistsIsPredicate ==
    (/\ op.name = "exists"
     /\ spc = "done"
     /\ OpLocation.ok
     /\ OpLocation.obj_name # <<>>) =>
        /\ serr = ""
        /\ ret = IF OpLocation.bucket \in buckets
                    /\ OpLocation.obj_name \in Range(objects)
                 THEN "True"
                 ELSE "False"

\* C15: in put the upload is sent only after the bucket probe has answered
\* without error; when the probe fails, put raises check_exception, sends no
\* upload, and the bucket holds what it held.
C15_ProbeBeforeUpload ==
    [][op'.name = "put" =>
           LET loc == _parse_path(op'.filepath, <<>>)
           IN /\ "upload_fileobj" \in Range(calls') =>
                     /\ calls' = <<"head_bucket", "upload_fileobj">>
                     /\ loc.bucket \in buckets
              /\ (loc.ok /\ loc.bucket \notin buckets) =>
                     /\ spc' = "done"
                     /\ serr' = "check_exception"
                     /\ calls' = <<"head_bucket">>
                     /\ objects' = objects
                     /\ buckets' = buckets]_vars

\* C15 happens: put on a file of a bucket that does not exist, while the
\* bucket of the model holds objects, has raised.
C15_Witness ==
    /\ op.name = "put"
    /\ spc = "done"
    /\ OpLocation.ok
    /\ OpLocation.bucket \notin buckets
    /\ objects # <<>>
    /\ serr = "check_exception"

\* C18: on a valid s3 path whose bucket exists isdir and isfile raise
\* nothing and exactly one of them returns True: isdir when the key is empty
\* or ends with '/', isfile when it is non-empty and does not; the call
\* returns that answer whatever objects the bucket holds, and leaves bucket
\* and objects as they were.
C18_DirXorFile ==
    [][(/\ op'.name \in {"isdir", "isfile"}
        /\ _parse_path(op'.filepath, <<>>).ok
        /\ _parse_path(op'.filepath, <<>>).bucket \in buckets) =>
           LET key == _parse_path(op'.filepath, <<>>).obj_name
               slash == key # <<>> /\ key[Len(key)] = SL
               dir == isdir(op'.filepath)
               file == isfile(op'.filepath)
           IN /\ dir.serr = "" /\ file.serr = ""
              /\ (dir.ret = "True") # (file.ret = "True")
              /\ {dir.ret, file.ret} = {"True", "False"}
              /\ dir.ret = "True" <=> (key = <<>> \/ slash)
              /\ file.ret = "True" <=> (key # <<>> /\ ~slash)
              /\ serr' = ""
              /\ ret' = IF op'.name = "isdir" THEN dir.ret ELSE file.ret
              /\ objects' = objects
              /\ buckets' = buckets]_vars

\* C18 happens: isdir returned True for the bucket root, which is no key of
\* any object, while the bucket holds objects.
C18_Witness ==
    /\ op.name = "isdir"
    /\ spc = "done"
    /\ OpLocation.ok
    /\ OpLocation.obj_name = <<>>
    /\ objects # <<>>
    /\ ret = "True"

(***************************************************************************)
(* _parse_path on raw paths.                                               *)
(***************************************************************************)

RECURSIVE Texts(_, _)
\* The texts of at most n characters of chars.
Texts(chars, n) ==
    IF n = 0 THEN {<<>>}
    ELSE LET shorter == Texts(chars, n - 1)
         IN shorter \cup {Append(t, c) : t \in shorter, c \in chars}

\* Raw paths: a prefix that is, nearly is or is not the scheme, then a text.
RawPaths ==
    {prefix \o body :
        prefix \in {S3Scheme, <<"s", "3", ":", SL>>, <<"s", "3", ":", BS>>,
                    <<>>},
        body \in Texts({"b", "k", SL, BS}, MaxBody)}

\* path_mapping: None, one rule that puts the scheme before 'b', and two
\* rules of which the second rewrites what the first wrote.
Mappings ==
    { <<>>,
      << <<<<"b">>, S3Scheme \o <<"b">>>> >>,
      << <<<<"k">>, <<"b", "b">>>>, <<<<"b", "b">>, <<BS>>>> >> }

PathInit ==
    /\ raw \in RawPaths
    /\ mapping \in Mappings
    /\ parsed = NoLocation
    /\ ppc = "idle"
    /\ formatted = <<>>
    /\ other = IdleCall
    /\ objects = <<>>
    /\ buckets = {Bucket}
    /\ ListIdle
    /\ StoreIdle

\* self._parse_path(filepath)
ParsePath ==
    /\ ppc = "idle"
    /\ parsed' = _parse_path(raw, mapping)
    /\ ppc' = "done"
    /\ UNCHANGED <<objects, raw, mapping, formatted, listVars, storeVars, other>>

\* self._format_path(self._map_path(filepath)), as lines 114-115 and 283 do.
FormatPath ==
    /\ ppc = "idle"
    /\ formatted = <<>>
    /\ formatted' = <<_format_path(_map_path(raw, mapping))>>
    /\ UNCHANGED <<objects, raw, mapping, parsed, ppc, listVars, storeVars,
                   other>>

\* self._format_path on the text _format_path returned.
FormatAgain ==
    /\ Len(formatted) = 1
    /\ formatted' = Append(formatted, _format_path(formatted[1]))
    /\ UNCHANGED <<objects, raw, mapping, parsed, ppc, listVars, storeVars,
                   other>>

PathNext ==
    \/ ParsePath
    \/ FormatPath
    \/ FormatAgain

SpecPath == PathInit /\ [][PathNext]_vars

\* The text after the first '/' of path, empty when path has no '/'.
AfterFirstSlash(path) ==
    IF \E n \in DOMAIN path : path[n] = SL
    THEN LET first == CHOOSE n \in DOMAIN path :
                          path[n] = SL /\ \A m \in 1..(n - 1) : path[m] # SL
         IN SubSeq(path, first + 1, Len(path))
    ELSE <<>>

\* C9: _parse_path fails whenever the mapped and normalised path does not
\* start with 's3://'; when it returns, the bucket is not empty and the key
\* is what follows the first '/' after the scheme.
C9_BucketNonEmpty ==
    ppc = "done" =>
        LET filepath == _format_path(_map_path(raw, mapping))
        IN /\ ~StartsWith(filepath, S3Scheme) => ~parsed.ok
           /\ parsed.ok =>
                  /\ parsed.bucket # <<>>
                  /\ parsed.obj_name =
                         AfterFirstSlash(Drop(filepath, Len(S3Scheme)))

\* C11: normalising the mapped path a second time changes nothing, and the
\* normalised path holds no backslash.
C11_FormatIdempotent ==
    /\ Len(formatted) >= 1 => \A n \in DOMAIN formatted[1] : formatted[1][n] # BS
    /\ Len(formatted) = 2 => formatted[2] = formatted[1]

\* C11 happens: a raw path with a backslash, to which the two-rule mapping was
\* applied, was normalised twice, and the first normalisation changed it.
C11_Witness ==
    /\ Len(formatted) = 2
    /\ Len(mapping) = 2
    /\ \E n \in DOMAIN raw : raw[n] = BS
    /\ \E n \in DOMAIN raw : raw[n] = "k"
    /\ formatted[1] # _map_path(raw, mapping)

====
